---- MODULE Spec2Model ----
(***************************************************************************)
(* The Veracruz host provisioning state (HPS) with the WASMI H-call        *)
(* interface of chihuahua/src/hcall/wasmi.rs.                              *)
(*                                                                         *)
(* One HPS instance is modelled.  The facade operations (load_program,     *)
(* add_new_data_source, invoke_entry_point, request_shutdown, invalidate,  *)
(* the two setters) are atomic.  invoke_entry_point runs the guest, and the *)
(* guest re-enters the HPS through invoke_index: the execution is the      *)
(* call, a sequence of H-calls, and the return of the engine.  While the   *)
(* guest runs no facade operation can start (the HPS is borrowed &mut).    *)
(*                                                                         *)
(* Options are sequences: None is <<>>, Some(x) is <<x>>.                  *)
(***************************************************************************)
EXTENDS Integers, Sequences, FiniteSets, TLC

VARIABLES
    lifecycle,                  \* LifecycleState
    program_module,             \* Option<ModuleRef>
    memory,                     \* Option<MemoryRef>: the bytes of the linear memory
    program_digest,             \* Option<Vec<u8>>
    expected_data_sources,      \* Vec<u64>
    received_data_sources,      \* Vec<DataSourceFrame>
    expected_shutdown_sources,  \* Vec<u64>
    received_shutdown_requests, \* set of u64
    result,                     \* Option<Vec<u8>>
    running,                    \* the guest entry point is executing
    steps,                      \* H-calls the running guest has been answered
    hlog,                       \* the write_output calls of the execution, in order
    last                        \* the operation that ended last and what it returned

vars == << lifecycle, program_module, memory, program_digest,
           expected_data_sources, received_data_sources,
           expected_shutdown_sources, received_shutdown_requests,
           result, running, steps, hlog, last >>

hps == << program_module, memory, program_digest, expected_data_sources,
          received_data_sources, expected_shutdown_sources,
          received_shutdown_requests, result >>

(***************************************************************************)
(* Bounds of the model.                                                    *)
(***************************************************************************)
\* H-calls one execution of the guest may dispatch.
MaxSteps == 2
\* Bytes of the guest's linear memory.
MemSize == 4

(***************************************************************************)
(* Constants of the program.                                               *)
(***************************************************************************)
HCALL_INPUT_COUNT_CODE == 0
HCALL_INPUT_SIZE_CODE == 1
HCALL_READ_INPUT_CODE == 2
HCALL_WRITE_OUTPUT_CODE == 3
HCALL_GETRANDOM_CODE == 4

HCALL_INPUT_COUNT_NAME == "__veracruz_hcall_input_count"
HCALL_INPUT_SIZE_NAME == "__veracruz_hcall_input_size"
HCALL_READ_INPUT_NAME == "__veracruz_hcall_read_input"
HCALL_WRITE_OUTPUT_NAME == "__veracruz_hcall_write_output"
HCALL_GETRANDOM_NAME == "__veracruz_hcall_getrandom"

ENTRY_POINT_NAME == "main"
LINEAR_MEMORY_NAME == "memory"

LifecycleState ==
    {"Initial", "DataSourcesLoading", "ReadyToExecute", "FinishedExecuting", "Error"}

None == << >>
Some(x) == << x >>
IsSome(o) == o # << >>
Unwrap(o) == o[1]


(***************************************************************************)
(* WASM signatures and the signature checks of the H-calls.                *)
(***************************************************************************)
ValueType == {"I32", "I64", "F32", "F64"}

Sig(params, ret) == [params |-> params, ret |-> ret]

SigI32_I32 == Sig(<<"I32">>, Some("I32"))
SigI32x2_I32 == Sig(<<"I32", "I32">>, Some("I32"))
SigI32x3_I32 == Sig(<<"I32", "I32", "I32">>, Some("I32"))
SigVoid_I32 == Sig(<< >>, Some("I32"))
SigVoid_Void == Sig(<< >>, None)

\* mutant: the signature of the C prototype in the comment, taking no argument
check_input_count_signature_of_prototype(signature) ==
    signature.params = << >> /\ signature.ret = Some("I32")

check_input_count_signature(signature) ==
    signature.params = <<"I32">> /\ signature.ret = Some("I32")

check_input_size_signature(signature) ==
    signature.params = <<"I32", "I32">> /\ signature.ret = Some("I32")

check_read_input_signature(signature) ==
    signature.params = <<"I32", "I32", "I32">> /\ signature.ret = Some("I32")

check_write_output_signature(signature) ==
    signature.params = <<"I32", "I32">> /\ signature.ret = Some("I32")

check_getrandom_signature(signature) ==
    signature.params = <<"I32", "I32">> /\ signature.ret = Some("I32")

check_signature(index, signature) ==
    IF index = HCALL_INPUT_COUNT_CODE THEN check_input_count_signature(signature)
    ELSE IF index = HCALL_INPUT_SIZE_CODE THEN check_input_size_signature(signature)
    ELSE IF index = HCALL_READ_INPUT_CODE THEN check_read_input_signature(signature)
    ELSE IF index = HCALL_WRITE_OUTPUT_CODE THEN check_write_output_signature(signature)
    ELSE IF index = HCALL_GETRANDOM_CODE THEN check_getrandom_signature(signature)
    ELSE FALSE

check_main_signature(signature) ==
    IF signature.params = << >> /\ signature.ret = Some("I32") THEN "NoParameters"
    ELSE IF signature.params = <<"I32", "I32">> /\ signature.ret = Some("I32")
         THEN "ArgvAndArgc"
    ELSE "NoEntryFound"

(***************************************************************************)
(* Import resolution: the HPS is the resolver of the namespace "env".      *)
(* A resolution is Ok(index of the host function) or Err(Instantiation).   *)
(***************************************************************************)
resolve_func(field_name, signature) ==
    LET index ==
            IF field_name = HCALL_INPUT_COUNT_NAME THEN Some(HCALL_INPUT_COUNT_CODE)
            ELSE IF field_name = HCALL_INPUT_SIZE_NAME THEN Some(HCALL_INPUT_SIZE_CODE)
            ELSE IF field_name = HCALL_READ_INPUT_NAME THEN Some(HCALL_READ_INPUT_CODE)
            ELSE IF field_name = HCALL_WRITE_OUTPUT_NAME THEN Some(HCALL_WRITE_OUTPUT_CODE)
            ELSE IF field_name = HCALL_GETRANDOM_NAME THEN Some(HCALL_GETRANDOM_CODE)
            ELSE None
    IN  IF index = None THEN [ok |-> FALSE, index |-> -1]
        ELSE IF ~check_signature(Unwrap(index), signature)
             THEN [ok |-> FALSE, index |-> -1]
        ELSE [ok |-> TRUE, index |-> Unwrap(index)]

resolve_global(field_name) == [ok |-> FALSE, index |-> -1]

resolve_memory(field_name) == [ok |-> FALSE, index |-> -1]

resolve_table(field_name) == [ok |-> FALSE, index |-> -1]

\* ImportsBuilder::new().with_resolver("env", self): the only namespace is env.
resolve_import(imp) ==
    IF imp.ns # "env" THEN [ok |-> FALSE, index |-> -1]
    ELSE IF imp.kind = "Func" THEN resolve_func(imp.name, imp.sig)
    ELSE IF imp.kind = "Global" THEN resolve_global(imp.name)
    ELSE IF imp.kind = "Memory" THEN resolve_memory(imp.name)
    ELSE resolve_table(imp.name)

(***************************************************************************)
(* Program images.  An image is the byte buffer given to load_program,     *)
(* with what the engine finds in it: whether it decodes, its imports, its  *)
(* exports, whether it declares a start function, whether its segments fit *)
(* at instantiation, and the initial contents of its linear memory.        *)
(***************************************************************************)
Import(ns, kind, name, sig) == [ns |-> ns, kind |-> kind, name |-> name, sig |-> sig]
Export(name, kind, sig) == [name |-> name, kind |-> kind, sig |-> sig]

Zeros == [i \in 1..MemSize |-> 0]
Pattern == [i \in 1..MemSize |-> i]

AllHCallImports ==
    { Import("env", "Func", HCALL_INPUT_COUNT_NAME, SigI32_I32),
      Import("env", "Func", HCALL_INPUT_SIZE_NAME, SigI32x2_I32),
      Import("env", "Func", HCALL_READ_INPUT_NAME, SigI32x3_I32),
      Import("env", "Func", HCALL_WRITE_OUTPUT_NAME, SigI32x2_I32),
      Import("env", "Func", HCALL_GETRANDOM_NAME, SigI32x2_I32) }

MemoryExport == Export(LINEAR_MEMORY_NAME, "Memory", SigVoid_Void)

Image(bytes, decodes, imports, fits, start, exports, data) ==
    [bytes |-> bytes, decodes |-> decodes, imports |-> imports, fits |-> fits,
     has_start |-> start, exports |-> exports, data |-> data]

Programs ==
    { \* main() -> i32, all five H-calls imported
      Image(<<1>>, TRUE, AllHCallImports, TRUE, FALSE,
            {MemoryExport, Export(ENTRY_POINT_NAME, "Func", SigVoid_I32)}, Pattern),
      \* main(argc, argv) -> i32
      Image(<<2>>, TRUE, AllHCallImports, TRUE, FALSE,
            {MemoryExport, Export(ENTRY_POINT_NAME, "Func", SigI32x2_I32)}, Zeros),
      \* no export named main
      Image(<<3>>, TRUE, {}, TRUE, FALSE, {MemoryExport}, Zeros),
      \* main with a signature that is not accepted
      Image(<<4>>, TRUE, {}, TRUE, FALSE,
            {MemoryExport, Export(ENTRY_POINT_NAME, "Func", SigVoid_Void)}, Zeros),
      \* not a WASM module
      Image(<<6>>, FALSE, {}, TRUE, FALSE, {}, Zeros),
      \* imports a function that is no H-call
      Image(<<7>>, TRUE, {Import("env", "Func", "exit", SigI32_I32)}, TRUE, FALSE,
            {MemoryExport, Export(ENTRY_POINT_NAME, "Func", SigVoid_I32)}, Zeros),
      \* imports an H-call with another signature
      Image(<<8>>, TRUE, {Import("env", "Func", HCALL_INPUT_COUNT_NAME, SigVoid_I32)},
            TRUE, FALSE,
            {MemoryExport, Export(ENTRY_POINT_NAME, "Func", SigVoid_I32)}, Zeros),
      \* imports a global, a memory, a table from env
      Image(<<9>>, TRUE, {Import("env", "Global", "g", SigVoid_Void)}, TRUE, FALSE,
            {MemoryExport, Export(ENTRY_POINT_NAME, "Func", SigVoid_I32)}, Zeros),
      Image(<<10>>, TRUE, {Import("env", "Memory", "memory", SigVoid_Void)}, TRUE, FALSE,
            {Export(ENTRY_POINT_NAME, "Func", SigVoid_I32)}, Zeros),
      Image(<<11>>, TRUE, {Import("env", "Table", "t", SigVoid_Void)}, TRUE, FALSE,
            {MemoryExport, Export(ENTRY_POINT_NAME, "Func", SigVoid_I32)}, Zeros),
      \* a data segment that does not fit the memory
      Image(<<13>>, TRUE, AllHCallImports, FALSE, FALSE,
            {MemoryExport, Export(ENTRY_POINT_NAME, "Func", SigVoid_I32)}, Zeros),
      \* declares a start function
      Image(<<14>>, TRUE, AllHCallImports, TRUE, TRUE,
            {MemoryExport, Export(ENTRY_POINT_NAME, "Func", SigVoid_I32)}, Zeros),
      \* exports no linear memory
      Image(<<15>>, TRUE, AllHCallImports, TRUE, FALSE,
            {Export(ENTRY_POINT_NAME, "Func", SigVoid_I32)}, Zeros) }

\* Module::from_buffer
from_buffer(buffer) == buffer.decodes

\* ModuleInstance::new(&module, &env_resolver)
instantiate(module) ==
    /\ \A imp \in module.imports : resolve_import(imp).ok
    /\ module.fits

\* ModuleInstance::export_by_name
export_by_name(module, name) ==
    LET found == { e \in module.exports : e.name = name }
    IN  IF found = {} THEN None ELSE Some(CHOOSE e \in found : TRUE)

check_main(module) ==
    LET e == export_by_name(module, ENTRY_POINT_NAME)
    IN  IF IsSome(e) /\ Unwrap(e).kind = "Func"
        THEN check_main_signature(Unwrap(e).sig)
        ELSE "NoEntryFound"

\* Ok(memory) or Err(NoMemoryRegistered), as an option
get_module_memory(module) ==
    LET e == export_by_name(module, LINEAR_MEMORY_NAME)
    IN  IF IsSome(e) /\ Unwrap(e).kind = "Memory" THEN Some(module.data) ELSE None

\* sha_256_digest: a hash of the bytes of the buffer
RECURSIVE sha_256_digest(_)
sha_256_digest(bytes) ==
    IF bytes = << >> THEN 7
    ELSE (31 * sha_256_digest(SubSeq(bytes, 1, Len(bytes) - 1)) + bytes[Len(bytes)]) % 65521


(***************************************************************************)
(* Inputs of the facade.                                                   *)
(***************************************************************************)
ClientIds == {1, 2}
ExpectedDataLists == { << >>, <<1>>, <<1, 2>> }
ExpectedShutdownLists == { <<1>> }
DataSourceMetadata ==
    { [client_id |-> 1, data |-> <<104>>], [client_id |-> 2, data |-> <<101, 108>>] }
ExitCodes == {0, 1}

(***************************************************************************)
(* What an operation returned.  op is the operation, ret the variant of    *)
(* its Result (or the status an H-call gave the guest), val an integer     *)
(* carried by it, detail the host error inside a WASMI error or the found  *)
(* field of InvalidLifeCycleState, name the function_name field, args the  *)
(* arguments of the H-call or the bytes of the buffer of load_program,     *)
(* engine the answer of the engine that invoke_entry_point matched on.     *)
(* An answer that is a host trap carries the H-call that raised it: index  *)
(* and args; index is -1 in every other answer.                            *)
(***************************************************************************)
EngineResult(kind, val, detail, name) ==
    [kind |-> kind, val |-> val, detail |-> detail, name |-> name,
     index |-> -1, args |-> << >>]

\* Err(Error::Trap) made by mk_host_trap for the H-call index(args)
HostTrap(index, args, kind, function_name) ==
    [kind |-> "Trap", val |-> 0, detail |-> kind, name |-> function_name,
     index |-> index, args |-> args]

NoAnswer == EngineResult("", 0, "", "")

Ret(op, ret, val, detail, name, args) ==
    [op |-> op, ret |-> ret, val |-> val, detail |-> detail, name |-> name,
     args |-> args, engine |-> NoAnswer]

RetInvoke(ret, val, res) ==
    [op |-> "invoke_entry_point", ret |-> ret, val |-> val, detail |-> res.detail,
     name |-> res.name, args |-> << >>, engine |-> res]

(***************************************************************************)
(* The HostProvisioningState: its state changes and queries.               *)
(***************************************************************************)
get_lifecycle_state == lifecycle
set_error == lifecycle' = "Error"
set_data_sources_loading == lifecycle' = "DataSourcesLoading"
set_ready_to_execute == lifecycle' = "ReadyToExecute"
set_finished_executing == lifecycle' = "FinishedExecuting"

is_program_registered == IsSome(program_module)
is_memory_registered == IsSome(memory)
is_result_registered == IsSome(result)
get_program == program_module
get_memory == memory
get_result == result
get_program_digest == program_digest
get_expected_data_source_count == Len(expected_data_sources)
get_current_data_source_count == Len(received_data_sources)

get_current_data_source(index) ==
    IF index < Len(received_data_sources)
    THEN Some(received_data_sources[index + 1])
    ELSE None

SeqToSet(s) == { s[i] : i \in DOMAIN s }

is_able_to_shutdown == SeqToSet(expected_shutdown_sources) \subseteq received_shutdown_requests

Init ==
    /\ lifecycle = "Initial"
    /\ program_module = None
    /\ memory = None
    /\ program_digest = None
    /\ expected_data_sources = << >>
    /\ received_data_sources = << >>
    /\ expected_shutdown_sources = << >>
    /\ received_shutdown_requests = {}
    /\ result = None
    /\ running = FALSE
    /\ steps = 0
    /\ hlog = << >>
    /\ last = Ret("new", "Ok", 0, "", "", << >>)

(***************************************************************************)
(* load_program                                                            *)
(***************************************************************************)
\* mutant: the linear memory is not registered
register_program_without_memory(buffer, module_ref, linear_memory) ==
    /\ program_module' = Some(module_ref)
    /\ memory' = memory
    /\ program_digest' = Some(sha_256_digest(buffer.bytes))

\* set_program_module, set_memory, set_program_digest
register_program(buffer, module_ref, linear_memory) ==
    /\ program_module' = Some(module_ref)
    /\ memory' = Some(linear_memory)
    /\ program_digest' = Some(sha_256_digest(buffer.bytes))

\* mutant: a loaded program always waits for data sources
loaded_lifecycle_always_loading == set_data_sources_loading

\* mutant: the test on the expected count is inverted
loaded_lifecycle_inverted ==
    IF get_expected_data_source_count = 0
    THEN set_data_sources_loading
    ELSE set_ready_to_execute

\* the lifecycle state a loaded program leaves
loaded_lifecycle ==
    IF get_expected_data_source_count = 0
    THEN set_ready_to_execute
    ELSE set_data_sources_loading

\* mutant: a failing path leaves the rejected bytes where the result goes
load_program_fails_registers_result(buffer, error) ==
    /\ set_error
    /\ last' = Ret("load_program", error, 0, "", "", buffer.bytes)
    /\ result' = Some(buffer.bytes)
    /\ UNCHANGED << program_module, memory, program_digest, expected_data_sources,
                    received_data_sources, expected_shutdown_sources,
                    received_shutdown_requests, running, steps, hlog >>

\* mutant: a failing path forgets set_error
load_program_fails_without_set_error(buffer, error) ==
    /\ UNCHANGED lifecycle
    /\ last' = Ret("load_program", error, 0, "", "", buffer.bytes)
    /\ UNCHANGED << hps, running, steps, hlog >>

\* a path of load_program that fails: set_error, return Err(error)
load_program_fails(buffer, error) ==
    /\ set_error
    /\ last' = Ret("load_program", error, 0, "", "", buffer.bytes)
    /\ UNCHANGED << hps, running, steps, hlog >>

\* mutant: a program may be loaded again after an error
load_program_permitted_after_error == get_lifecycle_state \in {"Initial", "Error"}

\* the lifecycle state load_program asks for
load_program_permitted == get_lifecycle_state = "Initial"

\* mutant: has_start is not looked at
load_program_accepts_start(buffer) ==
    /\ ~running
    /\ IF load_program_permitted
       THEN IF from_buffer(buffer)
            THEN IF instantiate(buffer)
                 THEN IF FALSE
                      THEN load_program_fails(buffer, "InvalidWASMModule")
                      ELSE LET module_ref == [exports |-> buffer.exports]
                               linear_memory == get_module_memory(buffer)
                           IN  IF IsSome(linear_memory)
                               THEN /\ register_program(buffer, module_ref,
                                                        Unwrap(linear_memory))
                                    /\ loaded_lifecycle
                                    /\ last' = Ret("load_program", "Ok", 0, "", "",
                                                   buffer.bytes)
                                    /\ UNCHANGED << expected_data_sources,
                                                    received_data_sources,
                                                    expected_shutdown_sources,
                                                    received_shutdown_requests,
                                                    result, running, steps, hlog >>
                               ELSE load_program_fails(buffer, "NoLinearMemoryFound")
                 ELSE load_program_fails(buffer, "ModuleInstantiationFailure")
            ELSE load_program_fails(buffer, "InvalidWASMModule")
       ELSE /\ set_error
            \* found is read after set_error
            /\ last' = Ret("load_program", "InvalidLifeCycleState", 0, lifecycle', "",
                           buffer.bytes)
            /\ UNCHANGED << hps, running, steps, hlog >>

load_program(buffer) ==
    /\ ~running
    /\ IF load_program_permitted
       THEN IF from_buffer(buffer)
            THEN IF instantiate(buffer)
                 THEN IF buffer.has_start
                      THEN load_program_fails(buffer, "InvalidWASMModule")
                      ELSE LET module_ref == [exports |-> buffer.exports]
                               linear_memory == get_module_memory(buffer)
                           IN  IF IsSome(linear_memory)
                               THEN /\ register_program(buffer, module_ref,
                                                        Unwrap(linear_memory))
                                    /\ loaded_lifecycle
                                    /\ last' = Ret("load_program", "Ok", 0, "", "",
                                                   buffer.bytes)
                                    /\ UNCHANGED << expected_data_sources,
                                                    received_data_sources,
                                                    expected_shutdown_sources,
                                                    received_shutdown_requests,
                                                    result, running, steps, hlog >>
                               ELSE load_program_fails(buffer, "NoLinearMemoryFound")
                 ELSE load_program_fails(buffer, "ModuleInstantiationFailure")
            ELSE load_program_fails(buffer, "InvalidWASMModule")
       ELSE /\ set_error
            \* found is read after set_error
            /\ last' = Ret("load_program", "InvalidLifeCycleState", 0, lifecycle', "",
                           buffer.bytes)
            /\ UNCHANGED << hps, running, steps, hlog >>

(***************************************************************************)
(* The other facade operations that change the state.                      *)
(***************************************************************************)
set_expected_data_sources(sources) ==
    /\ ~running
    /\ get_lifecycle_state = "Initial"
    /\ expected_data_sources' = sources
    /\ last' = Ret("set_expected_data_sources", "Ok", 0, "", "", << >>)
    /\ UNCHANGED << lifecycle, program_module, memory, program_digest,
                    received_data_sources, expected_shutdown_sources,
                    received_shutdown_requests, result, running, steps, hlog >>

set_expected_shutdown_sources(sources) ==
    /\ ~running
    /\ get_lifecycle_state = "Initial"
    /\ expected_shutdown_sources' = sources
    /\ last' = Ret("set_expected_shutdown_sources", "Ok", 0, "", "", << >>)
    /\ UNCHANGED << lifecycle, program_module, memory, program_digest,
                    expected_data_sources, received_data_sources,
                    received_shutdown_requests, result, running, steps, hlog >>

add_new_data_source(metadata) ==
    /\ ~running
    /\ IF get_lifecycle_state = "DataSourcesLoading"
       THEN /\ received_data_sources' = Append(received_data_sources, metadata)
            /\ IF Len(received_data_sources') = get_expected_data_source_count
               THEN set_ready_to_execute
               ELSE UNCHANGED lifecycle
            /\ last' = Ret("add_new_data_source", "Ok", 0, "", "", metadata.data)
       ELSE /\ set_error
            /\ last' = Ret("add_new_data_source", "InvalidLifeCycleState", 0,
                           lifecycle, "", metadata.data)
            /\ UNCHANGED received_data_sources
    /\ UNCHANGED << program_module, memory, program_digest, expected_data_sources,
                    expected_shutdown_sources, received_shutdown_requests, result,
                    running, steps, hlog >>

\* mutant: the request of any client is recorded
request_shutdown_of_anyone(client_id) ==
    /\ ~running
    /\ received_shutdown_requests' = received_shutdown_requests \cup {client_id}
    /\ last' = Ret("request_shutdown", "Ok", 0, "", "", <<client_id>>)
    /\ UNCHANGED << lifecycle, program_module, memory, program_digest,
                    expected_data_sources, received_data_sources,
                    expected_shutdown_sources, result, running, steps, hlog >>

request_shutdown(client_id) ==
    /\ ~running
    /\ received_shutdown_requests' =
           IF client_id \in SeqToSet(expected_shutdown_sources)
           THEN received_shutdown_requests \cup {client_id}
           ELSE received_shutdown_requests
    /\ last' = Ret("request_shutdown", "Ok", 0, "", "", <<client_id>>)
    /\ UNCHANGED << lifecycle, program_module, memory, program_digest,
                    expected_data_sources, received_data_sources,
                    expected_shutdown_sources, result, running, steps, hlog >>

invalidate ==
    /\ ~running
    /\ set_error
    /\ last' = Ret("invalidate", "Ok", 0, "", "", << >>)
    /\ UNCHANGED << hps, running, steps, hlog >>


(***************************************************************************)
(* The linear memory of the sandbox: address a is byte a + 1 of the        *)
(* sequence.  An access is Some(value) or None when out of bounds.         *)
(***************************************************************************)
\* MemoryInstance::get(offset, size)
mem_get(mem, address, size) ==
    IF address + size <= Len(mem)
    THEN Some(SubSeq(mem, address + 1, address + size))
    ELSE None

\* MemoryInstance::set(offset, value), with size = value.len()
mem_set(mem, address, size, value) ==
    IF address + size <= Len(mem)
    THEN Some([i \in 1..Len(mem) |->
                 IF i > address /\ i <= address + size THEN value[i - address]
                 ELSE mem[i]])
    ELSE None

\* u32::to_le_bytes
to_le_bytes(v) ==
    << v % 256, (v \div 256) % 256, (v \div 65536) % 256, (v \div 16777216) % 256 >>

\* MemoryInstance::set_value(offset, value: u32)
mem_set_value(mem, address, v) == mem_set(mem, address, 4, to_le_bytes(v))

(***************************************************************************)
(* The H-calls.  Each gives Ok(status) with the memory and the result it   *)
(* leaves, or Err(fatal host error), which leaves both as they were.       *)
(***************************************************************************)
HOk(code, mem, res) ==
    [ok |-> TRUE, code |-> code, name |-> "", memory |-> mem, result |-> res]

HErr(kind, function_name) ==
    [ok |-> FALSE, code |-> kind, name |-> function_name, memory |-> memory,
     result |-> result]

\* mutant: every write_output registers its bytes
write_output_overwrites(args) ==
    IF Len(args) # 2
    THEN HErr("BadArgumentsToHostFunction", HCALL_GETRANDOM_NAME)
    ELSE LET address == args[1]
             size == args[2]
         IN  IF get_memory = None THEN HErr("NoMemoryRegistered", "")
             ELSE LET bytes == mem_get(Unwrap(get_memory), address, size)
                  IN  IF bytes = None THEN HErr("MemoryReadFailed", "")
                      ELSE HOk("Success", memory, Some(Unwrap(bytes)))

\* mutant: Success is signalled, the result is not registered
write_output_forgets(args) ==
    IF Len(args) # 2
    THEN HErr("BadArgumentsToHostFunction", HCALL_GETRANDOM_NAME)
    ELSE LET address == args[1]
             size == args[2]
         IN  IF get_memory = None THEN HErr("NoMemoryRegistered", "")
             ELSE LET bytes == mem_get(Unwrap(get_memory), address, size)
                  IN  IF bytes = None THEN HErr("MemoryReadFailed", "")
                      ELSE IF is_result_registered
                           THEN HOk("ResultAlreadyWritten", memory, result)
                           ELSE HOk("Success", memory, result)

\* mutant: the write-once rule is applied before the buffer is read
write_output_checks_result_first(args) ==
    IF Len(args) # 2
    THEN HErr("BadArgumentsToHostFunction", HCALL_GETRANDOM_NAME)
    ELSE LET address == args[1]
             size == args[2]
         IN  IF get_memory = None THEN HErr("NoMemoryRegistered", "")
             ELSE IF is_result_registered
                  THEN HOk("ResultAlreadyWritten", memory, result)
                  ELSE LET bytes == mem_get(Unwrap(get_memory), address, size)
                       IN  IF bytes = None THEN HErr("MemoryReadFailed", "")
                           ELSE HOk("Success", memory, Some(Unwrap(bytes)))

write_output(args) ==
    IF Len(args) # 2
    THEN HErr("BadArgumentsToHostFunction", HCALL_GETRANDOM_NAME)
    ELSE LET address == args[1]
             size == args[2]
         IN  IF get_memory = None THEN HErr("NoMemoryRegistered", "")
             ELSE LET bytes == mem_get(Unwrap(get_memory), address, size)
                  IN  IF bytes = None THEN HErr("MemoryReadFailed", "")
                      ELSE IF is_result_registered
                           THEN HOk("ResultAlreadyWritten", memory, result)
                           ELSE HOk("Success", memory, Some(Unwrap(bytes)))

input_count(args) ==
    IF Len(args) # 1
    THEN HErr("BadArgumentsToHostFunction", HCALL_INPUT_COUNT_NAME)
    ELSE LET address == args[1]
             res == get_current_data_source_count
         IN  IF get_memory = None THEN HErr("NoMemoryRegistered", "")
             ELSE LET written == mem_set_value(Unwrap(get_memory), address, res)
                  IN  IF written = None THEN HErr("MemoryWriteFailed", "")
                      ELSE HOk("Success", written, result)

input_size(args) ==
    IF Len(args) # 2
    THEN HErr("BadArgumentsToHostFunction", HCALL_INPUT_SIZE_NAME)
    ELSE LET index == args[1]
             address == args[2]
         IN  IF get_memory = None THEN HErr("NoMemoryRegistered", "")
             ELSE LET frame == get_current_data_source(index)
                  IN  IF frame = None THEN HOk("BadInput", memory, result)
                      ELSE LET res == to_le_bytes(Len(Unwrap(frame).data))
                               written == mem_set(Unwrap(get_memory), address,
                                                  Len(res), res)
                           IN  IF written = None THEN HErr("MemoryWriteFailed", "")
                               ELSE HOk("Success", written, result)

\* mutant: whatever the index, the first data source is copied
read_input_ignores_index(args) ==
    IF Len(args) # 3
    THEN HErr("BadArgumentsToHostFunction", HCALL_READ_INPUT_NAME)
    ELSE LET index == args[1]
             address == args[2]
             size == args[3]
         IN  IF get_memory = None THEN HErr("NoMemoryRegistered", "")
             ELSE LET frame == get_current_data_source(index)
                  IN  IF frame = None THEN HOk("BadInput", memory, result)
                      ELSE LET data == Unwrap(get_current_data_source(0)).data
                           IN  IF Len(data) > size
                               THEN HOk("DataSourceSize", memory, result)
                               ELSE LET written == mem_set(Unwrap(get_memory), address,
                                                           Len(data), data)
                                    IN  IF written = None
                                        THEN HErr("MemoryWriteFailed", "")
                                        ELSE HOk("Success", written, result)

\* mutant: the buffer is tried before the index is looked up
read_input_tries_buffer_first(args) ==
    IF Len(args) # 3
    THEN HErr("BadArgumentsToHostFunction", HCALL_READ_INPUT_NAME)
    ELSE LET index == args[1]
             address == args[2]
             size == args[3]
         IN  IF get_memory = None THEN HErr("NoMemoryRegistered", "")
             ELSE IF mem_get(Unwrap(get_memory), address, size) = None
                  THEN HErr("MemoryWriteFailed", "")
             ELSE LET frame == get_current_data_source(index)
                  IN  IF frame = None THEN HOk("BadInput", memory, result)
                      ELSE LET data == Unwrap(frame).data
                           IN  IF Len(data) > size
                               THEN HOk("DataSourceSize", memory, result)
                               ELSE LET written == mem_set(Unwrap(get_memory), address,
                                                           Len(data), data)
                                    IN  IF written = None
                                        THEN HErr("MemoryWriteFailed", "")
                                        ELSE HOk("Success", written, result)

\* mutant: the data is copied before its length is compared with the buffer's
read_input_copies_before_size_check(args) ==
    IF Len(args) # 3
    THEN HErr("BadArgumentsToHostFunction", HCALL_READ_INPUT_NAME)
    ELSE LET index == args[1]
             address == args[2]
             size == args[3]
         IN  IF get_memory = None THEN HErr("NoMemoryRegistered", "")
             ELSE LET frame == get_current_data_source(index)
                  IN  IF frame = None THEN HOk("BadInput", memory, result)
                      ELSE LET data == Unwrap(frame).data
                               written == mem_set(Unwrap(get_memory), address,
                                                  Len(data), data)
                           IN  IF written = None
                               THEN HErr("MemoryWriteFailed", "")
                               ELSE IF Len(data) > size
                                    THEN HOk("DataSourceSize", written, result)
                                    ELSE HOk("Success", written, result)

read_input(args) ==
    IF Len(args) # 3
    THEN HErr("BadArgumentsToHostFunction", HCALL_READ_INPUT_NAME)
    ELSE LET index == args[1]
             address == args[2]
             size == args[3]
         IN  IF get_memory = None THEN HErr("NoMemoryRegistered", "")
             ELSE LET frame == get_current_data_source(index)
                  IN  IF frame = None THEN HOk("BadInput", memory, result)
                      ELSE LET data == Unwrap(frame).data
                           IN  IF Len(data) > size
                               THEN HOk("DataSourceSize", memory, result)
                               ELSE LET written == mem_set(Unwrap(get_memory), address,
                                                           Len(data), data)
                                    IN  IF written = None
                                        THEN HErr("MemoryWriteFailed", "")
                                        ELSE HOk("Success", written, result)

\* platform_services::getrandom(&mut buffer): rnd is what the random source does
random_buffer(size, rnd) == [i \in 1..size |-> (rnd.seed + 7 * i) % 256]

\* mutant: an unavailable random source costs the guest its result
get_random_unavailable_drops_result(args, rnd) ==
    IF Len(args) # 2
    THEN HErr("BadArgumentsToHostFunction", HCALL_GETRANDOM_NAME)
    ELSE LET address == args[1]
             size == args[2]
         IN  IF get_memory = None THEN HErr("NoMemoryRegistered", "")
             ELSE IF rnd.result = "Success"
                  THEN LET written == mem_set(Unwrap(get_memory), address, size,
                                              random_buffer(size, rnd))
                       IN  IF written = None THEN HErr("MemoryWriteFailed", "")
                           ELSE HOk("Success", written, result)
             ELSE IF rnd.result = "Unavailable"
                  THEN HOk("ServiceUnavailable", memory, None)
             ELSE HOk("Generic", memory, result)

\* mutant: the two failures of the random source are taken for each other
get_random_swaps_failures(args, rnd) ==
    IF Len(args) # 2
    THEN HErr("BadArgumentsToHostFunction", HCALL_GETRANDOM_NAME)
    ELSE LET address == args[1]
             size == args[2]
         IN  IF get_memory = None THEN HErr("NoMemoryRegistered", "")
             ELSE IF rnd.result = "Success"
                  THEN LET written == mem_set(Unwrap(get_memory), address, size,
                                              random_buffer(size, rnd))
                       IN  IF written = None THEN HErr("MemoryWriteFailed", "")
                           ELSE HOk("Success", written, result)
             ELSE IF rnd.result = "Unavailable"
                  THEN HOk("Generic", memory, result)
             ELSE HOk("ServiceUnavailable", memory, result)

get_random(args, rnd) ==
    IF Len(args) # 2
    THEN HErr("BadArgumentsToHostFunction", HCALL_GETRANDOM_NAME)
    ELSE LET address == args[1]
             size == args[2]
         IN  IF get_memory = None THEN HErr("NoMemoryRegistered", "")
             ELSE IF rnd.result = "Success"
                  THEN LET written == mem_set(Unwrap(get_memory), address, size,
                                              random_buffer(size, rnd))
                       IN  IF written = None THEN HErr("MemoryWriteFailed", "")
                           ELSE HOk("Success", written, result)
             ELSE IF rnd.result = "Unavailable"
                  THEN HOk("ServiceUnavailable", memory, result)
             ELSE HOk("Generic", memory, result)

\* mutant: the code of write_output is dispatched to get_random
invoke_index_misdispatch(index, args, rnd) ==
    IF index = HCALL_WRITE_OUTPUT_CODE THEN get_random(args, rnd)
    ELSE IF index = HCALL_INPUT_COUNT_CODE THEN input_count(args)
    ELSE IF index = HCALL_INPUT_SIZE_CODE THEN input_size(args)
    ELSE IF index = HCALL_READ_INPUT_CODE THEN read_input(args)
    ELSE IF index = HCALL_GETRANDOM_CODE THEN get_random(args, rnd)
    ELSE HErr("UnknownHostFunction", "")

\* mutant: an unknown index is answered with a status
invoke_index_unknown_is_status(index, args, rnd) ==
    IF index = HCALL_WRITE_OUTPUT_CODE THEN write_output(args)
    ELSE IF index = HCALL_INPUT_COUNT_CODE THEN input_count(args)
    ELSE IF index = HCALL_INPUT_SIZE_CODE THEN input_size(args)
    ELSE IF index = HCALL_READ_INPUT_CODE THEN read_input(args)
    ELSE IF index = HCALL_GETRANDOM_CODE THEN get_random(args, rnd)
    ELSE HOk("Generic", memory, result)

\* Externals::invoke_index
invoke_index(index, args, rnd) ==
    IF index = HCALL_WRITE_OUTPUT_CODE THEN write_output(args)
    ELSE IF index = HCALL_INPUT_COUNT_CODE THEN input_count(args)
    ELSE IF index = HCALL_INPUT_SIZE_CODE THEN input_size(args)
    ELSE IF index = HCALL_READ_INPUT_CODE THEN read_input(args)
    ELSE IF index = HCALL_GETRANDOM_CODE THEN get_random(args, rnd)
    ELSE HErr("UnknownHostFunction", "")


(***************************************************************************)
(* invoke_entry_point.  The call either refuses, fails before the guest    *)
(* runs, or starts the guest; the guest then dispatches H-calls until it   *)
(* returns or traps, and the match on the engine's answer ends the call.   *)
(***************************************************************************)
\* mutant: a trap is reported, set_error is forgotten
entry_point_returns_trap_without_set_error(res) ==
    /\ IF res.kind = "I32"
       THEN /\ set_finished_executing
            /\ last' = RetInvoke("Ok", res.val, res)
       ELSE IF res.kind \in {"None", "I64"}
       THEN /\ set_error
            /\ last' = RetInvoke("ReturnedCodeError", 0, res)
       ELSE IF res.kind = "Trap"
       THEN /\ UNCHANGED lifecycle
            /\ last' = RetInvoke("WASMITrapError", 0, res)
       ELSE /\ set_error
            /\ last' = RetInvoke("WASMIError", 0, res)
    /\ running' = FALSE

\* the match on the answer of invoke_export
entry_point_returns(res) ==
    /\ IF res.kind = "I32"
       THEN /\ set_finished_executing
            /\ last' = RetInvoke("Ok", res.val, res)
       ELSE IF res.kind \in {"None", "I64"}
       THEN /\ set_error
            /\ last' = RetInvoke("ReturnedCodeError", 0, res)
       ELSE IF res.kind = "Trap"
       THEN /\ set_error
            /\ last' = RetInvoke("WASMITrapError", 0, res)
       ELSE /\ set_error
            /\ last' = RetInvoke("WASMIError", 0, res)
    /\ running' = FALSE

\* what invoke_export finds before it calls the engine
invoke_export ==
    IF get_program = None
    THEN EngineResult("Error", 0, "NoProgramModuleRegistered", "")
    ELSE LET entry == check_main(Unwrap(get_program))
         IN  IF entry = "NoEntryFound"
             THEN EngineResult("Error", 0, "NoProgramEntryPoint", "")
             ELSE EngineResult("Run", 0, entry, "")

\* mutant: the guest is run whatever the lifecycle state is
invoke_entry_point_in_any_state ==
    /\ ~running
    /\ LET res == invoke_export
       IN  IF res.kind = "Run"
           THEN /\ running' = TRUE
                /\ last' = Ret("invoke_entry_point", "Running", 0, res.detail, "",
                               IF res.detail = "ArgvAndArgc" THEN <<0, 0>> ELSE << >>)
                /\ UNCHANGED << lifecycle, hps, steps, hlog >>
           ELSE /\ entry_point_returns(res)
                /\ UNCHANGED << hps, steps, hlog >>

invoke_entry_point ==
    /\ ~running
    /\ IF get_lifecycle_state = "ReadyToExecute"
       THEN LET res == invoke_export
            IN  IF res.kind = "Run"
                THEN /\ running' = TRUE
                     /\ last' = Ret("invoke_entry_point", "Running", 0, res.detail, "",
                                    IF res.detail = "ArgvAndArgc" THEN <<0, 0>> ELSE << >>)
                     /\ UNCHANGED << lifecycle, hps, steps, hlog >>
                ELSE /\ entry_point_returns(res)
                     /\ UNCHANGED << hps, steps, hlog >>
       ELSE /\ last' = Ret("invoke_entry_point", "EngineIsNotReady", 0, "", "", << >>)
            /\ UNCHANGED << lifecycle, hps, running, steps, hlog >>

hcall_name(index) ==
    IF index = HCALL_INPUT_COUNT_CODE THEN "input_count"
    ELSE IF index = HCALL_INPUT_SIZE_CODE THEN "input_size"
    ELSE IF index = HCALL_READ_INPUT_CODE THEN "read_input"
    ELSE IF index = HCALL_WRITE_OUTPUT_CODE THEN "write_output"
    ELSE IF index = HCALL_GETRANDOM_CODE THEN "getrandom"
    ELSE "unknown"

\* the bytes a write_output call points at, None when the range is unreadable
pointed_bytes(args) ==
    IF Len(args) = 2 /\ IsSome(memory)
    THEN mem_get(Unwrap(memory), args[1], args[2])
    ELSE None

\* the running guest calls the host function index with args
guest_hcall(index, args, rnd) ==
    /\ running
    /\ steps < MaxSteps
    /\ LET o == invoke_index(index, args, rnd)
       IN  /\ hlog' = IF index = HCALL_WRITE_OUTPUT_CODE
                      THEN Append(hlog, [bytes |-> pointed_bytes(args),
                                         ret |-> IF o.ok THEN o.code ELSE "Trap"])
                      ELSE hlog
           /\ IF o.ok
              THEN \* mk_error_code: the status goes to the guest, which goes on
                   /\ memory' = o.memory
                   /\ result' = o.result
                   /\ last' = Ret(hcall_name(index), o.code, 0, "", "", args)
                   /\ steps' = steps + 1
                   /\ UNCHANGED << lifecycle, running >>
              ELSE \* mk_host_trap: the engine stops and answers Err(Error::Trap)
                   /\ entry_point_returns(HostTrap(index, args, o.code, o.name))
                   /\ steps' = 0
                   /\ UNCHANGED << memory, result >>
    /\ UNCHANGED << program_module, program_digest, expected_data_sources,
                    received_data_sources, expected_shutdown_sources,
                    received_shutdown_requests >>

\* the running guest returns from main, or traps on its own
guest_returns(res) ==
    /\ running
    /\ entry_point_returns(res)
    /\ steps' = 0
    /\ UNCHANGED << hps, hlog >>

(***************************************************************************)
(* What the guest and the engine may do.                                   *)
(***************************************************************************)
\* addresses and sizes are u32; the large ones stand for every value past the memory
AddrArgs == {0, MemSize - 1, 1000000000}
SizeArgs == {0, 1, 1073741824}
IndexArgs == {0, 1, 2}
ArgLists == { << >>, <<0>>, <<0, 0>>, <<0, 0, 0>> }

HCall(index, args) == [index |-> index, args |-> args]

HCalls ==
    { HCall(HCALL_INPUT_COUNT_CODE, <<a>>) : a \in AddrArgs }
    \cup { HCall(HCALL_INPUT_SIZE_CODE, <<i, a>>) : i \in IndexArgs, a \in AddrArgs }
    \cup { HCall(HCALL_READ_INPUT_CODE, <<i, a, n>>) :
               i \in IndexArgs, a \in AddrArgs, n \in SizeArgs }
    \cup { HCall(HCALL_WRITE_OUTPUT_CODE, <<a, n>>) : a \in AddrArgs, n \in SizeArgs }
    \cup { HCall(HCALL_GETRANDOM_CODE, <<a, n>>) : a \in AddrArgs, n \in SizeArgs }
    \cup { HCall(c, l) : c \in 0..5, l \in ArgLists }

NoRandom == [result |-> "Unavailable", seed |-> 0]

RandomOutcomes ==
    { [result |-> "Success", seed |-> 10], NoRandom, [result |-> "UnknownError", seed |-> 0] }

EngineResults ==
    { EngineResult("I32", v, "", "") : v \in ExitCodes }
    \cup { EngineResult("None", 0, "", ""), EngineResult("I64", 0, "", ""),
           EngineResult("Trap", 0, "Unreachable", "") }

Next ==
    \/ \E buffer \in Programs : load_program(buffer)
    \/ \E sources \in ExpectedDataLists : set_expected_data_sources(sources)
    \/ \E sources \in ExpectedShutdownLists : set_expected_shutdown_sources(sources)
    \/ \E metadata \in DataSourceMetadata : add_new_data_source(metadata)
    \/ \E client_id \in ClientIds : request_shutdown(client_id)
    \/ invalidate
    \/ invoke_entry_point
    \/ \E c \in HCalls :
          \E rnd \in IF c.index = HCALL_GETRANDOM_CODE THEN RandomOutcomes ELSE {NoRandom} :
             guest_hcall(c.index, c.args, rnd)
    \/ \E res \in EngineResults : guest_returns(res)

Spec == Init /\ [][Next]_vars

(***************************************************************************)
(* The shutdown protocol on its own: longer lists of shutdown sources and  *)
(* one more client, one program, no H-calls.                               *)
(***************************************************************************)
ShutdownLists == { << >>, <<1>>, <<1, 2>>, <<2, 1>>, <<3, 3>> }
ShutdownClients == {1, 2, 3}
ShutdownPrograms == { b \in Programs : b.bytes \in { <<1>>, <<6>> } }

NextShutdown ==
    \/ \E sources \in ShutdownLists : set_expected_shutdown_sources(sources)
    \/ \E client_id \in ShutdownClients : request_shutdown(client_id)
    \/ \E sources \in { << >>, <<1>> } : set_expected_data_sources(sources)
    \/ \E buffer \in ShutdownPrograms : load_program(buffer)
    \/ \E metadata \in DataSourceMetadata : add_new_data_source(metadata)
    \/ invalidate
    \/ invoke_entry_point
    \/ \E res \in EngineResults : guest_returns(res)

SpecShutdown == Init /\ [][NextShutdown]_vars

(***************************************************************************)
(* The properties.                                                         *)
(***************************************************************************)
ImageOf(bytes) == CHOOSE b \in Programs : b.bytes = bytes

R == get_current_data_source_count
E == get_expected_data_source_count

\* C1: once the lifecycle is Error it is Error in every later state, whatever
\* operation or H-call follows.
C1_ErrorIsAbsorbing == [][lifecycle = "Error" => lifecycle' = "Error"]_vars

\* an add_new_data_source that found the lifecycle Error, and left it Error
C1_Witness ==
    /\ lifecycle = "Error"
    /\ last.op = "add_new_data_source"
    /\ last.detail = "Error"

\* C2: outside Error the program module, the linear memory and the program
\* digest are all registered or all unregistered.
C2_RegisteredTogether ==
    lifecycle # "Error" =>
        /\ is_program_registered = is_memory_registered
        /\ is_memory_registered = IsSome(get_program_digest)

C2_Witness ==
    /\ lifecycle = "DataSourcesLoading"
    /\ is_program_registered
    /\ is_memory_registered
    /\ IsSome(get_program_digest)

\* C3 as stated: outside Error the lifecycle is ReadyToExecute if and only if
\* a program module is registered and R = E.
C3_ReadyIffLoadedAndComplete ==
    lifecycle # "Error" =>
        (lifecycle = "ReadyToExecute" <=> (is_program_registered /\ R = E))

\* C3 amended: outside Error a program module is registered with R = E if and
\* only if the lifecycle is ReadyToExecute or FinishedExecuting.
C3_ReadyOrFinishedIffLoadedAndComplete ==
    lifecycle # "Error" =>
        (lifecycle \in {"ReadyToExecute", "FinishedExecuting"}
            <=> (is_program_registered /\ R = E))

C3_Witness ==
    /\ lifecycle = "FinishedExecuting"
    /\ is_program_registered
    /\ R = E
    /\ E = 2

\* C4 as stated: whenever the lifecycle is FinishedExecuting a result is
\* registered, whatever the guest did.
C4_FinishedHasResult ==
    lifecycle = "FinishedExecuting" =>
        (is_result_registered /\ IsSome(get_result))

\* C4 amended: whenever the lifecycle is FinishedExecuting a result is
\* registered exactly when a write_output of the guest returned Success; a
\* guest that returns an i32 without calling write_output leaves no result.
C4_FinishedHasResultIffWritten ==
    lifecycle = "FinishedExecuting" =>
        (is_result_registered <=> \E i \in DOMAIN hlog : hlog[i].ret = "Success")

\* the guest returned an i32 without any write_output
C4_Witness ==
    /\ lifecycle = "FinishedExecuting"
    /\ hlog = << >>
    /\ ~is_result_registered
    /\ last.ret = "Ok"

\* C5: of the write_output calls of one execution whose buffer is readable,
\* the first returned Success, every later one ResultAlreadyWritten, and the
\* registered result is, from the first call on, the bytes of the first call.
C5_ResultIsWriteOnce ==
    LET readable == { i \in DOMAIN hlog : IsSome(hlog[i].bytes) }
    IN  readable # {} =>
            LET first == CHOOSE i \in readable : \A j \in readable : i <= j
            IN  /\ hlog[first].ret = "Success"
                /\ get_result = Some(Unwrap(hlog[first].bytes))
                /\ \A i \in readable \ {first} : hlog[i].ret = "ResultAlreadyWritten"

\* two calls with different bytes: the second is refused
C5_Witness ==
    /\ Len(hlog) >= 2
    /\ hlog[1].ret = "Success"
    /\ hlog[2].ret = "ResultAlreadyWritten"
    /\ hlog[1].bytes # hlog[2].bytes
    /\ get_result = hlog[1].bytes

\* C6: after invoke_entry_point returned Ok, a result is present if and only
\* if the guest called write_output at least once during the execution.
C6_ResultIffWriteOutputCalled ==
    (last.op = "invoke_entry_point" /\ last.ret = "Ok") =>
        (IsSome(get_result) <=> Len(hlog) >= 1)

C6_Witness ==
    /\ last.op = "invoke_entry_point"
    /\ last.ret = "Ok"
    /\ Len(hlog) >= 1
    /\ IsSome(get_result)

\* C7: an invoke_entry_point that returned EngineIsNotReady (it found the
\* lifecycle not ReadyToExecute) leaves the lifecycle Error.
C7_NotReadyLeavesError ==
    (last.op = "invoke_entry_point" /\ last.ret = "EngineIsNotReady") =>
        lifecycle = "Error"

LoadErrors ==
    {"InvalidWASMModule", "ModuleInstantiationFailure", "NoLinearMemoryFound",
     "InvalidLifeCycleState"}

\* C8: a load_program that finds the lifecycle not Initial, an undecodable
\* module, an instantiation failure, a start function or no exported linear
\* memory returns an error; every load_program that returns an error leaves
\* the lifecycle Error and the module, memory and digest as they were.
C8_FailingLoadProgram ==
    [][last'.op = "load_program" =>
        LET b == ImageOf(last'.args)
            fails == \/ lifecycle # "Initial"
                     \/ ~from_buffer(b)
                     \/ ~instantiate(b)
                     \/ b.has_start
                     \/ get_module_memory(b) = None
        IN  /\ fails => last'.ret \in LoadErrors
            /\ last'.ret # "Ok" =>
                  /\ last'.ret \in LoadErrors
                  /\ lifecycle' = "Error"
                  /\ program_module' = program_module
                  /\ memory' = memory
                  /\ program_digest' = program_digest]_vars

\* a second load_program failed and left the registered program as it was
C8_Witness ==
    /\ last.op = "load_program"
    /\ last.ret = "InvalidLifeCycleState"
    /\ lifecycle = "Error"
    /\ is_program_registered

\* C9: after a successful load_program the lifecycle is ReadyToExecute when
\* E = 0 and DataSourcesLoading when E > 0.
C9_LoadedLifecycle ==
    (last.op = "load_program" /\ last.ret = "Ok") =>
        lifecycle = IF E = 0 THEN "ReadyToExecute" ELSE "DataSourcesLoading"

C9_Witness ==
    /\ last.op = "load_program"
    /\ last.ret = "Ok"
    /\ E = 0
    /\ lifecycle = "ReadyToExecute"

\* C10: when invoke_entry_point has run in ReadyToExecute and returned, either
\* the engine answered an i32, the lifecycle is FinishedExecuting and that i32
\* was returned, or the engine answered anything else (a trap, no value, a
\* value that is no i32, no usable main) and the lifecycle is Error and a
\* fatal error was returned.
C10_InvokeEndsOneOfTwoWays ==
    (last.op = "invoke_entry_point" /\ last.ret \notin {"Running", "EngineIsNotReady"}) =>
        IF last.engine.kind = "I32"
        THEN /\ lifecycle = "FinishedExecuting"
             /\ last.ret = "Ok"
             /\ last.val = last.engine.val
        ELSE /\ lifecycle = "Error"
             /\ last.ret \in {"ReturnedCodeError", "WASMITrapError", "WASMIError"}

\* the guest trapped on its own after an H-call
C10_Witness ==
    /\ last.op = "invoke_entry_point"
    /\ last.engine.kind = "Trap"
    /\ last.engine.detail = "Unreachable"
    /\ last.ret = "WASMITrapError"
    /\ lifecycle = "Error"
    /\ Len(hlog) >= 1


(***************************************************************************)
(* Properties of the H-calls.                                              *)
(***************************************************************************)
HCallOps == {"input_count", "input_size", "read_input", "write_output", "getrandom"}

\* the size of the linear memory, which no operation changes
MemLen == Len(Unwrap(memory))

\* the last step was an H-call that gave the guest a status
AnsweredHCall == last.op \in HCallOps \cup {"unknown"}

\* the last step was an H-call that raised a host trap
TrappedHCall == last.op = "invoke_entry_point" /\ last.engine.index # -1

\* C11 as stated: after an H-call that raised a host trap the guest is
\* stopped, the lifecycle is Error, and invoke_entry_point has returned the
\* host error itself: MemoryReadFailed for a write_output out of bounds.
C11_HostTrapReturnsHostError ==
    TrappedHCall =>
        /\ ~running
        /\ lifecycle = "Error"
        /\ last.ret = last.engine.detail

\* C11 amended: an H-call that fails with a memory access out of bounds, and
\* a dispatch with an index outside 0..4, is never answered with a status; it
\* raises a host trap, after which the guest is stopped (no H-call is ever
\* dispatched in Error), the lifecycle is Error, and invoke_entry_point has
\* returned WASMITrapError carrying the host error: MemoryReadFailed for a
\* write_output whose range is out of bounds.
C11_HostTrapStopsGuest ==
    /\ lifecycle = "Error" => ~running
    /\ AnsweredHCall =>
          /\ last.op # "unknown"
          /\ last.op = "write_output" => last.args[1] + last.args[2] <= MemLen
          /\ (last.op \in {"input_count", "input_size"} /\ last.ret = "Success") =>
                last.args[Len(last.args)] + 4 <= MemLen
          /\ (last.op = "read_input" /\ last.ret = "Success") =>
                last.args[2] + Len(received_data_sources[last.args[1] + 1].data) <= MemLen
          /\ (last.op = "getrandom" /\ last.ret = "Success") =>
                last.args[1] + last.args[2] <= MemLen
    /\ TrappedHCall =>
          /\ ~running
          /\ lifecycle = "Error"
          /\ last.ret = "WASMITrapError"
          /\ last.detail = last.engine.detail
          /\ last.engine.index \notin 0..4 => last.detail = "UnknownHostFunction"
          /\ ( /\ last.engine.index = HCALL_WRITE_OUTPUT_CODE
               /\ Len(last.engine.args) = 2
               /\ is_memory_registered ) =>
                /\ last.engine.args[1] + last.engine.args[2] > MemLen
                /\ last.detail = "MemoryReadFailed"

\* write_output(p, 2^30) with p the last byte of the memory
C11_Witness ==
    /\ TrappedHCall
    /\ last.engine.index = HCALL_WRITE_OUTPUT_CODE
    /\ last.engine.args = <<MemSize - 1, 1073741824>>
    /\ last.detail = "MemoryReadFailed"
    /\ lifecycle = "Error"


\* the statuses other than Success that an H-call gives the guest
NonFatalStatuses ==
    {"BadInput", "DataSourceSize", "ResultAlreadyWritten", "ServiceUnavailable",
     "Generic"}

\* the step is an H-call that gave the guest a status
HCallAnswers == running /\ running' /\ last'.op \in HCallOps

\* C12: an H-call that returns a non-fatal status (BadInput, DataSourceSize,
\* ResultAlreadyWritten, ServiceUnavailable, Generic) leaves the lifecycle in
\* ReadyToExecute and leaves the registered result, the received data sources,
\* the program registration and the guest's memory unchanged; the guest is
\* still running, so it can return and finish in FinishedExecuting.
C12_NonFatalStatusChangesNothing ==
    [][ (HCallAnswers /\ last'.ret \in NonFatalStatuses) =>
            /\ lifecycle = "ReadyToExecute"
            /\ lifecycle' = "ReadyToExecute"
            /\ result' = result
            /\ received_data_sources' = received_data_sources
            /\ program_module' = program_module
            /\ program_digest' = program_digest
            /\ memory' = memory ]_vars

\* an execution that was refused a second write_output and finished
C12_Witness ==
    /\ lifecycle = "FinishedExecuting"
    /\ \E i \in 1..Len(hlog) : hlog[i].ret = "ResultAlreadyWritten"


\* the index of the H-call with this name
hcall_index(name) == CHOOSE c \in 0..5 : hcall_name(c) = name

\* the H-call dispatched by the last step, answered or trapped; -1 when the
\* last step was no H-call
CalledIndex ==
    IF AnsweredHCall THEN hcall_index(last.op)
    ELSE IF TrappedHCall THEN last.engine.index
    ELSE -1

CalledArgs ==
    IF AnsweredHCall THEN last.args
    ELSE IF TrappedHCall THEN last.engine.args
    ELSE << >>

\* the last step dispatched the H-call index with n arguments
Called(index, n) == CalledIndex = index /\ Len(CalledArgs) = n

\* C13: for every index >= R, input_size(index, p) and read_input(index, p, sz)
\* return BadInput and leave every byte of the guest's memory unchanged,
\* whatever p and sz are, out of bounds included.
C13_BadIndexIsBadInput ==
    [][ ( /\ running
          /\ Called(HCALL_INPUT_SIZE_CODE, 2)' \/ Called(HCALL_READ_INPUT_CODE, 3)'
          /\ CalledArgs'[1] >= R ) =>
            /\ HCallAnswers
            /\ last'.ret = "BadInput"
            /\ memory' = memory ]_vars

\* read_input(R, p, sz) with p and sz far outside the memory
C13_Witness ==
    /\ running
    /\ last.op = "read_input"
    /\ last.args = <<R, 1000000000, 1073741824>>
    /\ last.ret = "BadInput"


\* the bytes of the data source at index, for index < R
DataAt(index) == received_data_sources[index + 1].data

\* C14: read_input(index, p, buf_sz) with index < R and a data source longer
\* than buf_sz returns DataSourceSize and writes nothing to the guest's
\* memory, even when p is out of bounds.
C14_ShortBufferIsDataSourceSize ==
    [][ ( /\ running
          /\ Called(HCALL_READ_INPUT_CODE, 3)'
          /\ CalledArgs'[1] < R
          /\ Len(DataAt(CalledArgs'[1])) > CalledArgs'[3] ) =>
            /\ HCallAnswers
            /\ last'.ret = "DataSourceSize"
            /\ memory' = memory ]_vars

\* a data source of two bytes, a buffer of one byte far outside the memory
C14_Witness ==
    /\ running
    /\ last.op = "read_input"
    /\ last.args[1] < R
    /\ last.args[2] = 1000000000
    /\ last.args[3] = 1
    /\ Len(DataAt(last.args[1])) = 2
    /\ last.ret = "DataSourceSize"


\* u32::from_le_bytes, what the guest reads back from four bytes
from_le_bytes(b) == b[1] + 256 * b[2] + 65536 * b[3] + 16777216 * b[4]

\* the memory differs from the memory before at most in size bytes from address
OnlyWritten(address, size) ==
    \A k \in 1..MemLen :
        (k <= address \/ k > address + size) => Unwrap(memory')[k] = Unwrap(memory)[k]

\* C15: the received data sources are the data of the successful
\* add_new_data_source calls in arrival order, and for every i < E a
\* successful read_input(i, p, sz) places at p exactly the bytes of the i-th
\* of them and touches no other byte, while a successful input_size(i, q)
\* writes at q their length as a little-endian u32.
C15_ReadInputGivesArrivalOrder ==
    [][ /\ (last'.op = "add_new_data_source" /\ last'.ret = "Ok") =>
              /\ R' = R + 1
              /\ SubSeq(received_data_sources', 1, R) = received_data_sources
              /\ received_data_sources'[R'].data = last'.args
        /\ ~(last'.op = "add_new_data_source" /\ last'.ret = "Ok") =>
              received_data_sources' = received_data_sources
        /\ (HCallAnswers /\ last'.op = "read_input" /\ last'.ret = "Success") =>
              LET i == last'.args[1]
                  p == last'.args[2]
              IN  /\ i < E
                  /\ Len(DataAt(i)) <= last'.args[3]
                  /\ mem_get(Unwrap(memory'), p, Len(DataAt(i))) = Some(DataAt(i))
                  /\ OnlyWritten(p, Len(DataAt(i)))
        /\ (HCallAnswers /\ last'.op = "input_size" /\ last'.ret = "Success") =>
              LET i == last'.args[1]
                  q == last'.args[2]
              IN  /\ i < E
                  /\ mem_get(Unwrap(memory'), q, 4) # None
                  /\ from_le_bytes(Unwrap(mem_get(Unwrap(memory'), q, 4)))
                         = Len(DataAt(i))
                  /\ OnlyWritten(q, 4) ]_vars

\* the second of two different data sources has been read to address 0
C15_Witness ==
    /\ running
    /\ last.op = "read_input"
    /\ last.ret = "Success"
    /\ last.args[1] = 1
    /\ DataAt(1) # DataAt(0)
    /\ mem_get(Unwrap(memory), last.args[2], Len(DataAt(1))) = Some(DataAt(1))


\* the step is add_new_data_source, which every time sets last to its answer
AddStep == ~running /\ last'.op = "add_new_data_source"

\* C16: R never decreases and never exceeds E; add_new_data_source succeeds
\* only in DataSourcesLoading, where it adds one data source, and the call
\* that makes R equal to E moves the lifecycle to ReadyToExecute; a call in
\* any other state, ReadyToExecute or later included, fails and leaves the
\* received data sources as they were.
C16_DataSourceCounting ==
    [][ /\ R' >= R
        /\ R <= E
        /\ R' <= E'
        /\ AddStep =>
              IF lifecycle = "DataSourcesLoading"
              THEN /\ last'.ret = "Ok"
                   /\ R' = R + 1
                   /\ lifecycle' = IF R' = E THEN "ReadyToExecute"
                                    ELSE "DataSourcesLoading"
              ELSE /\ last'.ret # "Ok"
                   /\ received_data_sources' = received_data_sources ]_vars

\* the second of two expected data sources has arrived
C16_Witness ==
    /\ last.op = "add_new_data_source"
    /\ last.ret = "Ok"
    /\ R = 2
    /\ E = 2
    /\ lifecycle = "ReadyToExecute"


\* C17: no result before execution.  At first no result is registered, and a
\* step taken while the guest is not running (any step before
\* invoke_entry_point starts the guest is one) registers none: until the
\* guest runs get_result is absent and is_result_registered is false.  In
\* Initial, in DataSourcesLoading and in ReadyToExecute before the guest runs
\* this is so whatever came before.
C17_NoResultBeforeExecution ==
    /\ ~running /\ get_result = None /\ ~is_result_registered
    /\ [][ /\ ~running =>
                /\ get_result' = get_result
                /\ is_result_registered' = is_result_registered
           /\ ( /\ lifecycle' \in {"Initial", "DataSourcesLoading", "ReadyToExecute"}
                /\ ~running' ) =>
                /\ get_result' = None
                /\ ~is_result_registered' ]_vars

\* every data source has arrived, the guest has not run yet
C17_Witness ==
    /\ lifecycle = "ReadyToExecute"
    /\ ~running
    /\ is_program_registered
    /\ R = 2
    /\ get_result = None
    /\ ~is_result_registered


\* the u32 the guest finds at address, 0 - 1 when the range is out of bounds
GuestU32(address) ==
    LET b == mem_get(Unwrap(memory), address, 4)
    IN  IF b = None THEN 0 - 1 ELSE from_le_bytes(Unwrap(b))

\* C18: an H-call is dispatched only inside an invoke_entry_point that
\* started in ReadyToExecute, where R = E.  So input_count, when it answers,
\* answers Success and has written E, and for every index < E input_size and
\* read_input never answer BadInput: they succeed, unless the buffer of
\* read_input is shorter than the data (DataSourceSize) or the range to write
\* is out of bounds (a host trap).
C18_HCallsSeeAllDataSources ==
    /\ running => (lifecycle = "ReadyToExecute" /\ R = E)
    /\ AnsweredHCall => (running /\ lifecycle = "ReadyToExecute")
    /\ TrappedHCall => R = E
    /\ (AnsweredHCall /\ Called(HCALL_INPUT_COUNT_CODE, 1)) =>
          /\ last.ret = "Success"
          /\ GuestU32(CalledArgs[1]) = R
          /\ GuestU32(CalledArgs[1]) = E
    /\ (Called(HCALL_INPUT_SIZE_CODE, 2) /\ CalledArgs[1] < E) =>
          IF CalledArgs[2] + 4 <= MemLen
          THEN AnsweredHCall /\ last.ret = "Success"
          ELSE TrappedHCall /\ last.detail = "MemoryWriteFailed"
    /\ (Called(HCALL_READ_INPUT_CODE, 3) /\ CalledArgs[1] < E) =>
          IF Len(DataAt(CalledArgs[1])) > CalledArgs[3]
          THEN AnsweredHCall /\ last.ret = "DataSourceSize"
          ELSE IF CalledArgs[2] + Len(DataAt(CalledArgs[1])) <= MemLen
          THEN AnsweredHCall /\ last.ret = "Success"
          ELSE TrappedHCall /\ last.detail = "MemoryWriteFailed"

\* input_count has written 2, the number of expected data sources
C18_Witness ==
    /\ running
    /\ last.op = "input_count"
    /\ last.ret = "Success"
    /\ E = 2
    /\ GuestU32(last.args[1]) = 2


\* the step is a load_program that returned Ok
LoadSucceeds == last'.op = "load_program" /\ last'.ret = "Ok"

\* C19: after a successful load_program(b), get_program_digest is the SHA-256
\* digest of b, and no later operation changes it: only a successful
\* load_program sets the digest, and once set it stays, a rejected second
\* load_program with other bytes included.
C19_DigestIsOfLoadedProgram ==
    [][ /\ (~running /\ LoadSucceeds) =>
              get_program_digest' = Some(sha_256_digest(last'.args))
        /\ get_program_digest' # get_program_digest => (~running /\ LoadSucceeds)
        /\ get_program_digest # None => get_program_digest' = get_program_digest ]_vars

\* a second load_program, of other bytes, has been rejected
C19_Witness ==
    /\ last.op = "load_program"
    /\ last.ret = "InvalidLifeCycleState"
    /\ get_program_digest # None
    /\ get_program_digest # Some(sha_256_digest(last.args))
    /\ \E b \in Programs : get_program_digest = Some(sha_256_digest(b.bytes))


\* the step is request_shutdown(RequestedBy')
RequestStep == ~running /\ last'.op = "request_shutdown"
RequestedBy == last.args[1]

\* C20: is_able_to_shutdown is true exactly when every identifier in
\* expected_shutdown_sources has requested shutdown; request_shutdown(c)
\* records c only when c is in expected_shutdown_sources and otherwise
\* changes nothing, no other operation records a request, and
\* request_shutdown never changes the lifecycle state.
C20_ShutdownProtocol ==
    [][ /\ is_able_to_shutdown' <=>
              \A i \in 1..Len(expected_shutdown_sources') :
                  expected_shutdown_sources'[i] \in received_shutdown_requests'
        /\ RequestStep =>
              /\ lifecycle' = lifecycle
              /\ hps' = [hps EXCEPT ![7] =
                            IF \E i \in 1..Len(expected_shutdown_sources) :
                                   expected_shutdown_sources[i] = RequestedBy'
                            THEN received_shutdown_requests \cup {RequestedBy'}
                            ELSE received_shutdown_requests]
        /\ ~RequestStep => received_shutdown_requests' = received_shutdown_requests
      ]_vars

\* the second of the two expected clients has requested shutdown
C20_Witness ==
    /\ last.op = "request_shutdown"
    /\ Len(expected_shutdown_sources) = 2
    /\ received_shutdown_requests = {1, 2}
    /\ is_able_to_shutdown


(***************************************************************************)
(* Properties of load_program and of the resolution of imports.            *)
(***************************************************************************)
\* the five H-calls: index, name, signature
HCallTable ==
    { [index |-> HCALL_INPUT_COUNT_CODE, name |-> HCALL_INPUT_COUNT_NAME,
       sig |-> SigI32_I32],
      [index |-> HCALL_INPUT_SIZE_CODE, name |-> HCALL_INPUT_SIZE_NAME,
       sig |-> SigI32x2_I32],
      [index |-> HCALL_READ_INPUT_CODE, name |-> HCALL_READ_INPUT_NAME,
       sig |-> SigI32x3_I32],
      [index |-> HCALL_WRITE_OUTPUT_CODE, name |-> HCALL_WRITE_OUTPUT_NAME,
       sig |-> SigI32x2_I32],
      [index |-> HCALL_GETRANDOM_CODE, name |-> HCALL_GETRANDOM_NAME,
       sig |-> SigI32x2_I32] }

\* the imports a module may ask the resolver of env for
ImportUniverse ==
    { Import("env", kind, name, sig) :
        kind \in {"Func", "Global", "Memory", "Table"},
        name \in { h.name : h \in HCallTable } \cup {"exit", "memory"},
        sig \in { SigI32_I32, SigI32x2_I32, SigI32x3_I32, SigVoid_I32, SigVoid_Void,
                  Sig(<<"I64">>, Some("I32")), Sig(<<"I32">>, Some("I64")),
                  Sig(<<"I32">>, None) } }

\* the import is one of the five H-calls, with the signature of the table
IsHCallImport(imp) ==
    /\ imp.ns = "env"
    /\ imp.kind = "Func"
    /\ \E h \in HCallTable : h.name = imp.name /\ h.sig = imp.sig

\* the last step is a load_program that got as far as instantiating its module
LoadInstantiated ==
    /\ last.op = "load_program"
    /\ last.ret # "InvalidLifeCycleState"
    /\ ImageOf(last.args).decodes

C22_StartFunctionIsRejected ==
    ( /\ LoadInstantiated
      /\ instantiate(ImageOf(last.args))
      /\ ImageOf(last.args).has_start ) =>
        /\ last.ret = "InvalidWASMModule"
        /\ lifecycle = "Error"
        /\ ~is_program_registered
        /\ ~is_memory_registered
        /\ get_program_digest = None
        /\ ~running
        /\ hlog = << >>
        /\ ~is_result_registered

\* load_program of the module that declares a start function has returned
C22_Witness ==
    /\ last.op = "load_program"
    /\ ImageOf(last.args).has_start
    /\ instantiate(ImageOf(last.args))
    /\ last.ret = "InvalidWASMModule"
    /\ lifecycle = "Error"


(***************************************************************************)
(* Properties of invoke_entry_point and of single H-calls.                 *)
(***************************************************************************)
\* the step is a call of invoke_entry_point
InvokeStep == ~running /\ last'.op = "invoke_entry_point"

\* the lifecycle states that follow an execution
Executed == {"FinishedExecuting", "Error"}

\* C23: the guest is started only by an invoke_entry_point that finds the
\* lifecycle ReadyToExecute, and it runs at most once: when it stops the
\* lifecycle is FinishedExecuting or Error, neither of which is ever left
\* for a state in which it could start again.  An invoke_entry_point that
\* finds another state (a second one, or one after invalidate) returns an
\* error, dispatches no H-call and leaves the result as it was.
C23_GuestRunsAtMostOnce ==
    [][ /\ (~running /\ running') => (InvokeStep /\ lifecycle = "ReadyToExecute")
        /\ running => lifecycle = "ReadyToExecute"
        /\ (running /\ ~running') => lifecycle' \in Executed
        /\ lifecycle \in Executed => (lifecycle' \in Executed /\ ~running')
        /\ (InvokeStep /\ lifecycle # "ReadyToExecute") =>
              /\ last'.ret = "EngineIsNotReady"
              /\ ~running'
              /\ steps' = steps
              /\ hlog' = hlog
              /\ get_result' = get_result
              /\ memory' = memory ]_vars

\* an execution left a result, the HPS was invalidated, invoke_entry_point
\* was called again
C23_Witness ==
    /\ last.op = "invoke_entry_point"
    /\ last.ret = "EngineIsNotReady"
    /\ lifecycle = "Error"
    /\ is_result_registered
    /\ \E i \in 1..Len(hlog) : hlog[i].ret = "Success"


\* C24: write_output reads the guest's buffer before it applies the
\* write-once rule: a write_output(buf_ptr, buf_sz) whose range is out of
\* bounds is a fatal MemoryReadFailed trap, also when a result is registered
\* already, so ResultAlreadyWritten is answered only to calls whose buffer
\* is readable; in both cases the registered result stays as it was.
C24_BufferBeforeWriteOnce ==
    [][ (running /\ Called(HCALL_WRITE_OUTPUT_CODE, 2)') =>
          IF CalledArgs'[1] + CalledArgs'[2] > MemLen
          THEN /\ TrappedHCall'
               /\ last'.detail = "MemoryReadFailed"
               /\ get_result' = get_result
          ELSE /\ HCallAnswers
               /\ IF is_result_registered
                  THEN last'.ret = "ResultAlreadyWritten" /\ get_result' = get_result
                  ELSE last'.ret = "Success" ]_vars

\* a result is registered, a second write_output of a range out of bounds traps
C24_Witness ==
    /\ TrappedHCall
    /\ Called(HCALL_WRITE_OUTPUT_CODE, 2)
    /\ CalledArgs[1] + CalledArgs[2] > MemLen
    /\ is_result_registered
    /\ last.detail = "MemoryReadFailed"


\* the number of arguments the H-call index takes
Arity(index) == Len((CHOOSE h \in HCallTable : h.index = index).sig.params)

\* the name of the H-call index
NameOf(index) == (CHOOSE h \in HCallTable : h.index = index).name

\* C25: a call of any of the five H-calls with the wrong number of arguments
\* is a fatal BadArgumentsToHostFunction trap, raised before any access to
\* the memory and any change of the state, and the function_name of the
\* error is the name of the H-call that was called: the arity error of
\* write_output names write_output.
C25_ArityTrapNamesCall ==
    [][ ( /\ running
          /\ CalledIndex' \in 0..4
          /\ Len(CalledArgs') # Arity(CalledIndex') ) =>
            /\ TrappedHCall'
            /\ last'.ret = "WASMITrapError"
            /\ last'.detail = "BadArgumentsToHostFunction"
            /\ last'.engine.name = NameOf(CalledIndex')
            /\ hps' = hps ]_vars


\* the step is a call of load_program
LoadStep == ~running /\ last'.op = "load_program"

\* C26: load_program called while the lifecycle is not Initial returns
\* InvalidLifeCycleState (expected is always [Initial]) with found equal to
\* the lifecycle state the HPS was in when load_program was called, for
\* example DataSourcesLoading when a program is loaded twice.
C26_FoundIsStateAtCall ==
    [][ (LoadStep /\ lifecycle # "Initial") =>
            /\ last'.ret = "InvalidLifeCycleState"
            /\ last'.detail = lifecycle ]_vars


\* what getrandom(buf_ptr, buf_sz) owes the guest when the random source
\* does rnd: o is the answer of get_random in the current state
GetRandomAnswer(buf_ptr, buf_sz, rnd, o) ==
    IF rnd.result = "Unavailable"
    THEN o.ok /\ o.code = "ServiceUnavailable" /\ o.memory = memory
    ELSE IF rnd.result # "Success"
    THEN o.ok /\ o.code = "Generic" /\ o.memory = memory
    ELSE IF buf_ptr + buf_sz <= MemLen
    THEN /\ o.ok
         /\ o.code = "Success"
         /\ \A k \in 1..MemLen :
               Unwrap(o.memory)[k] =
                   IF k > buf_ptr /\ k <= buf_ptr + buf_sz
                   THEN random_buffer(buf_sz, rnd)[k - buf_ptr]
                   ELSE Unwrap(memory)[k]
    ELSE ~o.ok /\ o.code = "MemoryWriteFailed" /\ o.memory = memory

\* C27: getrandom(buf_ptr, buf_sz) returns ServiceUnavailable when the
\* random source reports Unavailable and Generic on its other failure, both
\* leaving the guest's memory unchanged; when the random source succeeds it
\* writes exactly buf_sz bytes at buf_ptr and returns Success, or raises a
\* fatal MemoryWriteFailed trap if that range is out of bounds.  This is
\* checked of the answer to every outcome of the random source, in the state
\* and for the arguments of every getrandom the guest makes; and the step
\* answers one of the three statuses and changes no byte outside the range,
\* or traps and changes none.
C27_GetRandom ==
    [][ /\ (running /\ Called(HCALL_GETRANDOM_CODE, 2)') =>
              \A rnd \in RandomOutcomes :
                  GetRandomAnswer(CalledArgs'[1], CalledArgs'[2], rnd,
                                  get_random(CalledArgs', rnd))
        /\ (running /\ Called(HCALL_GETRANDOM_CODE, 2)') =>
              IF HCallAnswers
              THEN IF last'.ret = "Success"
                   THEN /\ CalledArgs'[1] + CalledArgs'[2] <= MemLen
                        /\ OnlyWritten(CalledArgs'[1], CalledArgs'[2])
                   ELSE /\ last'.ret \in {"ServiceUnavailable", "Generic"}
                        /\ memory' = memory
              ELSE /\ TrappedHCall'
                   /\ last'.detail = "MemoryWriteFailed"
                   /\ CalledArgs'[1] + CalledArgs'[2] > MemLen
                   /\ memory' = memory ]_vars

\* one random byte has been written to the last byte of the memory
C27_Witness ==
    /\ running
    /\ last.op = "getrandom"
    /\ last.ret = "Success"
    /\ last.args = <<MemSize - 1, 1>>
    /\ \E rnd \in RandomOutcomes :
          /\ rnd.result = "Success"
          /\ Unwrap(memory)[MemSize] = random_buffer(1, rnd)[1]

====
